---- MODULE Spec2Model ----
(***************************************************************************)
(* Model of build_lib.py, the offline build script of the warp runtime     *)
(* libraries.  The script is one sequential process: it parses its         *)
(* arguments, locates the CUDA toolkit and (on Windows) the host compiler, *)
(* optionally fetches and builds LLVM/Clang through cmake, then hands the  *)
(* clang and warp targets to warp.build.build_dll inside a try/except.     *)
(* Every blocking call to a collaborator is split into the call and its    *)
(* return; the outcome of a collaborator is chosen nondeterministically.   *)
(***************************************************************************)
EXTENDS Integers, Sequences, FiniteSets, TLC

VARIABLES
    args,           \* argparse namespace (line 28)
    environ,        \* os.environ entries CUDA_HOME, CUDA_PATH
    sys_platform,   \* sys.platform
    fs,             \* state of external/llvm-project on disk
    config,         \* warp.config: mode, cuda_path, host_compiler
    pc,             \* position of the script
    pending,        \* collaborator call the script is blocked in, or "none"
    calls,          \* collaborator calls made so far in this run, in order
    cmake,          \* build_type and the paths handed to the cmake stages
    libs,           \* the list bound by the os.walk loop (lines 151-155)
    walked,         \* the file names os.walk yielded for libpath (line 151)
    clang_args,     \* arguments of build_dll for clang (lines 157-165)
    warp_args,      \* arguments of build_dll for warp (lines 189-197)
    stdout,         \* lines printed by the script or by the interpreter
    exit_status,    \* process exit status, NoStatus while running
    exit_by,        \* which place ended the process
    failed,         \* the step that failed in this run, or "none"
    fs0,            \* fs as it was when this run started
    prev_ok         \* the previous run built LLVM and exited 0

vars == <<args, environ, sys_platform, fs, config, pc, pending, calls, cmake,
          libs, walked, clang_args, warp_args, stdout, exit_status, exit_by,
          failed, fs0, prev_ok>>

-----------------------------------------------------------------------------
(* Values *)

\* Largest number of files the install's lib directory holds.
MaxLibs == 2

\* Python's None and an optional value holding x.
None == <<>>
Some(x) == <<x>>

\* bool(v) of an optional string: None and "" are falsy.
Truthy(v) == v # None /\ v[1] # ""

\* a or b, as Python evaluates it: a when a is truthy, else b.
PyOr(a, b) == IF Truthy(a) THEN a ELSE b

NoStatus == -1

\* Strings the script transforms are sequences of characters.
release == <<"r", "e", "l", "e", "a", "s", "e">>
debug == <<"d", "e", "b", "u", "g">>
fast == <<"f", "a", "s", "t">>
Modes == {release, debug, fast}

Platforms == {"win32", "darwin", "linux"}

\* os.name for each sys.platform.
os_name == IF sys_platform = "win32" THEN "nt" ELSE "posix"

ArgsSet ==
    [msvc_path : {None, Some("C:/msvc")},
     sdk_path : {None, Some("C:/sdk")},
     cuda_path : {None, Some(""), Some("/opt/cuda")},
     mode : Modes,
     quick : BOOLEAN,
     build_llvm : BOOLEAN]

EnvSet ==
    [CUDA_HOME : {None, Some(""), Some("/env/cuda_home")},
     CUDA_PATH : {None, Some(""), Some("/env/cuda_path")}]

FsStates == {"absent", "partial", "valid"}

LibFiles == {<<"L", i>> : i \in 1..MaxLibs}

\* A directory listing: the files of a subset of LibFiles in some order.
Listings ==
    UNION {{s \in [1..n -> LibFiles] : \A i, j \in 1..n : i # j => s[i] # s[j]}
           : n \in 0..MaxLibs}

-----------------------------------------------------------------------------
(* Pure helpers *)

UpperOf(c) ==
    CASE c = "r" -> "R" [] c = "d" -> "D" [] c = "f" -> "F" [] OTHER -> c

LowerOf(c) ==
    CASE c = "R" -> "r" [] c = "D" -> "d" [] c = "F" -> "f" [] OTHER -> c

\* str.capitalize(): first character upper-cased, the rest lower-cased.
Capitalize(s) ==
    [i \in 1..Len(s) |-> IF i = 1 THEN UpperOf(s[i]) ELSE LowerOf(s[i])]

find_cuda(env) == PyOr(env.CUDA_HOME, env.CUDA_PATH)

\* the assignment, had it not singled out darwin
SetupCudaPath_on_every_platform(platform, a, env) ==
    IF Truthy(a.cuda_path) THEN a.cuda_path ELSE find_cuda(env)

\* the assignment, had the environment been probed before --cuda_path
SetupCudaPath_environment_first(platform, a, env) ==
    IF platform = "darwin" THEN None
    ELSE IF Truthy(find_cuda(env)) THEN find_cuda(env)
    ELSE a.cuda_path

\* lines 51-60: the value assigned to warp.config.cuda_path
SetupCudaPath(platform, a, env) ==
    IF platform = "darwin" THEN None
    ELSE IF Truthy(a.cuda_path) THEN a.cuda_path
    ELSE find_cuda(env)

dll_ext ==
    IF sys_platform = "win32" THEN "dll"
    ELSE IF sys_platform = "darwin" THEN "dylib"
    ELSE "so"

\* a path under external/llvm-project scoped by the build type
LlvmPath(dir, build_type, sub) ==
    [dir |-> dir, build_type |-> build_type, sub |-> sub]

NoCmake == [build_type |-> <<>>, gen |-> None, build |-> None, install |-> None]

cpp_sources ==
    <<"native/warp.cpp", "native/crt.cpp", "native/cuda_util.cpp",
      "native/mesh.cpp", "native/hashgrid.cpp", "native/sort.cpp",
      "native/volume.cpp", "native/marching.cpp", "native/cutlass_gemm.cpp">>

\* the source list, had --quick dropped the CUTLASS source from it
warp_cpp_paths_without_cutlass(quick) ==
    LET kept == IF quick THEN SubSeq(cpp_sources, 1, Len(cpp_sources) - 1)
                ELSE cpp_sources
    IN [i \in 1..Len(kept) |-> <<"warp", kept[i]>>]

\* lines 168-179: the source list of the warp target
warp_cpp_paths(quick) ==
    [i \in 1..Len(cpp_sources) |-> <<"warp", cpp_sources[i]>>]

\* the CUDA source, had it been handed whatever cuda_path is
warp_cu_path_always(cuda_path) == Some(<<"warp", "native/warp.cu">>)

\* lines 181-185
warp_cu_path(cuda_path) ==
    IF cuda_path = None THEN None ELSE Some(<<"warp", "native/warp.cu">>)

ArgsLine == <<"Namespace(...)">>
CudaWarning == <<"Warning: CUDA toolchain not found, building without CUDA support">>
MsvcError == <<"Warp build error: Could not find MSVC compiler">>
BuildError(e) == <<"Warp build error: ", e>>
Traceback(e) ==
    << <<"Traceback (most recent call last):">>,
       <<"  File \"build_lib.py\", line ...">>,
       <<e>> >>

\* the message of the exception a failing step raises
ErrorOf(step) ==
    CASE step = "clone_from" -> "GitCommandError"
      [] step = "Repo" -> "InvalidGitRepositoryError"
      [] step = "cmake_gen" -> "CalledProcessError: cmake -S"
      [] step = "cmake_build" -> "CalledProcessError: cmake --build"
      [] step = "cmake_install" -> "CalledProcessError: cmake --install"
      [] step = "os.walk" -> "name 'libs' is not defined"
      [] step = "build_clang" -> "clang build failed"
      [] OTHER -> "warp build failed"

-----------------------------------------------------------------------------
(* Ways the process ends *)

\* An exception nothing catches: the interpreter prints the traceback and
\* the process exits with status 1.
Uncaught(step) ==
    /\ pc' = "exit"
    /\ pending' = "none"
    /\ failed' = step
    /\ stdout' = stdout \o Traceback(ErrorOf(step))
    /\ exit_status' = 1
    /\ exit_by' = "uncaught"

\* the handler, had it printed and then let the script run off its end
ExceptHandler_without_exit(step, out) ==
    /\ pc' = "exit"
    /\ pending' = "none"
    /\ failed' = step
    /\ stdout' = Append(out, BuildError(ErrorOf(step)))
    /\ exit_status' = 0
    /\ exit_by' = "end"

\* the handler, had it printed a fixed text instead of the exception
ExceptHandler_without_message(step, out) ==
    /\ pc' = "exit"
    /\ pending' = "none"
    /\ failed' = step
    /\ stdout' = Append(out, <<"Warp build error">>)
    /\ exit_status' = 1
    /\ exit_by' = "except"

\* lines 199-205: the except handler of the compile phase
ExceptHandler(step, out) ==
    /\ pc' = "exit"
    /\ pending' = "none"
    /\ failed' = step
    /\ stdout' = Append(out, BuildError(ErrorOf(step)))
    /\ exit_status' = 1
    /\ exit_by' = "except"

\* lines 74-76, had the script gone on without a host compiler
MsvcMissing_goes_on ==
    /\ pc' = "llvm"
    /\ pending' = "none"
    /\ failed' = "find_host_compiler"
    /\ stdout' = Append(stdout, MsvcError)
    /\ UNCHANGED <<exit_status, exit_by>>

\* lines 74-76
MsvcMissing ==
    /\ pc' = "exit"
    /\ pending' = "none"
    /\ failed' = "find_host_compiler"
    /\ stdout' = Append(stdout, MsvcError)
    /\ exit_status' = 1
    /\ exit_by' = "msvc"

\* the script runs off its end
Finish ==
    /\ pc' = "exit"
    /\ pending' = "none"
    /\ exit_status' = 0
    /\ exit_by' = "end"
    /\ UNCHANGED <<failed, stdout>>

\* the script blocks in a collaborator
Call(step, at) ==
    /\ pc' = at
    /\ pending' = step
    /\ calls' = Append(calls, step)

-----------------------------------------------------------------------------
(* The script *)

\* State after lines 18-39: arguments parsed and printed, config assigned.
StartRun(a, env, platform, disk) ==
    /\ args = a
    /\ environ = env
    /\ sys_platform = platform
    /\ fs = disk
    /\ fs0 = disk
    /\ config = [mode |-> a.mode, cuda_path |-> None, host_compiler |-> None]
    /\ pc = "cuda"
    /\ pending = "none"
    /\ calls = <<>>
    /\ cmake = NoCmake
    /\ libs = None
    /\ walked = None
    /\ clang_args = None
    /\ warp_args = None
    /\ stdout = <<ArgsLine>>
    /\ exit_status = NoStatus
    /\ exit_by = "none"
    /\ failed = "none"

Init ==
    /\ \E a \in ArgsSet, env \in EnvSet, platform \in Platforms, disk \in FsStates :
           StartRun(a, env, platform, disk)
    /\ prev_ok = FALSE

\* lines 51-60
SetupCuda ==
    /\ pc = "cuda"
    /\ config' = [config EXCEPT !.cuda_path = SetupCudaPath(sys_platform, args, environ)]
    /\ pc' = "msvc"
    /\ UNCHANGED <<args, environ, sys_platform, fs, pending, calls, cmake, libs, walked,
                   clang_args, warp_args, stdout, exit_status, exit_by, failed,
                   fs0, prev_ok>>

\* line 66, had one explicit path been enough
MsvcBranch_with_either_path(a) ==
    IF os_name # "nt" THEN "skip"
    ELSE IF Truthy(a.sdk_path) \/ Truthy(a.msvc_path) THEN "set"
    ELSE "find"

\* line 64 and line 66: which way the host compiler is set up
MsvcBranch(a) ==
    IF os_name # "nt" THEN "skip"
    ELSE IF Truthy(a.sdk_path) /\ Truthy(a.msvc_path) THEN "set"
    ELSE "find"

\* lines 64-72, up to the search of the environment
SetupMsvc ==
    /\ pc = "msvc"
    /\ pending = "none"
    /\ CASE MsvcBranch(args) = "skip" ->
              /\ pc' = "llvm"
              /\ UNCHANGED <<pending, calls>>
         [] MsvcBranch(args) = "set" ->
              /\ pc' = "llvm"
              /\ calls' = Append(calls, "set_msvc_compiler")
              /\ UNCHANGED pending
         [] OTHER -> Call("find_host_compiler", "msvc")
    /\ UNCHANGED <<args, environ, sys_platform, fs, config, cmake, libs, walked,
                   clang_args, warp_args, stdout, exit_status, exit_by, failed,
                   fs0, prev_ok>>

\* lines 72-76: find_host_compiler returns
ReturnFindHostCompiler ==
    /\ pending = "find_host_compiler"
    /\ \E found \in {None, Some(""), Some("cl.exe")} :
         /\ config' = [config EXCEPT !.host_compiler = found]
         /\ IF ~Truthy(found)
            THEN MsvcMissing
            ELSE /\ pc' = "llvm"
                 /\ pending' = "none"
                 /\ UNCHANGED <<stdout, exit_status, exit_by, failed>>
    /\ UNCHANGED <<args, environ, sys_platform, fs, calls, cmake, libs, walked,
                   clang_args, warp_args, fs0, prev_ok>>

\* lines 91-125, had configure been started without waiting for its exit
StartCmakeGen_without_waiting ==
    LET build_type == Capitalize(config.mode)
        llvm_build_path == LlvmPath("out/build", build_type, "")
        llvm_install_path == LlvmPath("out/install", build_type, "")
    IN /\ cmake' = [build_type |-> build_type,
                    gen |-> Some([B |-> llvm_build_path,
                                  CMAKE_BUILD_TYPE |-> build_type,
                                  CMAKE_INSTALL_PREFIX |-> llvm_install_path]),
                    build |-> Some(llvm_build_path),
                    install |-> None]
       /\ pc' = "cmake"
       /\ pending' = "cmake_build"
       /\ calls' = calls \o <<"cmake_gen", "cmake_build">>

\* lines 91-122: derive the build type and paths, start the configure stage
StartCmakeGen ==
    LET build_type == Capitalize(config.mode)
        llvm_build_path == LlvmPath("out/build", build_type, "")
        llvm_install_path == LlvmPath("out/install", build_type, "")
    IN /\ cmake' = [build_type |-> build_type,
                    gen |-> Some([B |-> llvm_build_path,
                                  CMAKE_BUILD_TYPE |-> build_type,
                                  CMAKE_INSTALL_PREFIX |-> llvm_install_path]),
                    build |-> None,
                    install |-> None]
       /\ Call("cmake_gen", "cmake")

\* line 79, had the bootstrap run whatever --build_llvm is
RunsBootstrap_always(a) == TRUE

\* line 81, had the clone been made whatever is on disk
NeedsClone_always(disk) == TRUE

\* line 79: is LLVM fetched and built
RunsBootstrap(a) == a.build_llvm

\* line 81: does the bootstrap clone
NeedsClone(disk) == disk = "absent"

\* lines 79-89 (and 91-122 when the working copy opens)
Bootstrap ==
    /\ pc = "llvm"
    /\ pending = "none"
    /\ IF ~RunsBootstrap(args)
       THEN /\ pc' = "try"
            /\ UNCHANGED <<pending, calls, cmake, stdout, exit_status, exit_by, failed>>
       ELSE IF NeedsClone(fs)
       THEN /\ Call("clone_from", "llvm")
            /\ UNCHANGED <<cmake, stdout, exit_status, exit_by, failed>>
       ELSE IF fs = "valid"
       THEN /\ StartCmakeGen
            /\ UNCHANGED <<stdout, exit_status, exit_by, failed>>
       ELSE /\ Uncaught("Repo")
            /\ UNCHANGED <<calls, cmake>>
    /\ UNCHANGED <<args, environ, sys_platform, fs, config, libs, walked, clang_args,
                   warp_args, fs0, prev_ok>>

\* line 84 returns or raises
ReturnClone ==
    /\ pending = "clone_from"
    /\ \/ /\ fs' = "valid"
          /\ StartCmakeGen
          /\ UNCHANGED <<stdout, exit_status, exit_by, failed>>
       \/ /\ fs' \in {"absent", "partial"}
          /\ Uncaught("clone_from")
          /\ UNCHANGED <<calls, cmake>>
    /\ UNCHANGED <<args, environ, sys_platform, config, libs, walked, clang_args,
                   warp_args, fs0, prev_ok>>

\* what follows a cmake stage that succeeded (lines 124-128)
AfterStage(stage) ==
    CASE stage = "cmake_gen" -> "cmake_build"
      [] stage = "cmake_build" -> "cmake_install"
      [] OTHER -> "try"

\* a cmake stage returns, had its exit status not been checked
ReturnCmake_unchecked(stage) ==
    /\ pending = stage
    /\ \E ok \in BOOLEAN :
         /\ failed' = IF ok THEN failed ELSE stage
         /\ IF AfterStage(stage) = "try"
            THEN /\ pc' = "try"
                 /\ pending' = "none"
                 /\ UNCHANGED <<calls, cmake>>
            ELSE /\ Call(AfterStage(stage), "cmake")
                 /\ cmake' = IF stage = "cmake_gen"
                             THEN [cmake EXCEPT !.build = Some(cmake.gen[1].B)]
                             ELSE [cmake EXCEPT !.install = Some(cmake.gen[1].B)]
         /\ UNCHANGED <<stdout, exit_status, exit_by>>
    /\ UNCHANGED <<args, environ, sys_platform, fs, config, libs, walked, clang_args,
                   warp_args, fs0, prev_ok>>

\* subprocess.check_call of a cmake stage returns or raises
\* (lines 122, 125, 128)
ReturnCmake(stage) ==
    /\ pending = stage
    /\ \/ /\ IF AfterStage(stage) = "try"
             THEN /\ pc' = "try"
                  /\ pending' = "none"
                  /\ UNCHANGED <<calls, cmake>>
             ELSE /\ Call(AfterStage(stage), "cmake")
                  /\ cmake' = IF stage = "cmake_gen"
                              THEN [cmake EXCEPT !.build = Some(cmake.gen[1].B)]
                              ELSE [cmake EXCEPT !.install = Some(cmake.gen[1].B)]
          /\ UNCHANGED <<stdout, exit_status, exit_by, failed>>
       \/ /\ Uncaught(stage)
          /\ UNCHANGED <<calls, cmake>>
    /\ UNCHANGED <<args, environ, sys_platform, fs, config, libs, walked, clang_args,
                   warp_args, fs0, prev_ok>>

ReturnCmakeGen == ReturnCmake("cmake_gen")
ReturnCmakeBuild == ReturnCmake("cmake_build")
ReturnCmakeInstall == ReturnCmake("cmake_install")

\* the extra libraries, had the search path been put before Version.lib
clang_libs_path_first(listing, libpath) ==
    listing \o << <<"/LIBPATH:", libpath>>, <<"Version.lib">> >>

\* line 150, had the release install always been the one linked against
clang_libpath_of_release(llvm_install_path) ==
    LlvmPath(llvm_install_path.dir, Capitalize(release), "lib")

\* line 150: libpath, the lib directory of the LLVM install
clang_libpath(llvm_install_path) ==
    LlvmPath(llvm_install_path.dir, llvm_install_path.build_type, "lib")

\* lines 150-155: the extra libraries of the clang target
clang_libs(listing, libpath) ==
    listing \o << <<"Version.lib">>, <<"/LIBPATH:", libpath>> >>

\* the listing fails, had libs been bound to an empty list before the loop
ListingFails_with_empty_libs(libpath) ==
    /\ libs' = Some(clang_libs(<<>>, libpath))
    /\ clang_args' = Some([dll_path |-> <<"warp", "bin/clang", dll_ext>>,
                           cpp_paths |-> << <<"warp", "clang/clang.cpp">> >>,
                           cu_path |-> None,
                           libs |-> libs'[1],
                           mode |-> config.mode])
    /\ pc' = "try"
    /\ pending' = "build_clang"
    /\ failed' = "os.walk"
    /\ calls' = calls \o <<"os.walk", "build_clang">>
    /\ UNCHANGED <<walked, stdout, exit_status, exit_by>>

\* lines 151-154 when os.walk yields nothing: the loop body never runs, libs
\* is unbound at line 154 and the NameError reaches the except handler
ListingFails(libpath) ==
    /\ ExceptHandler("os.walk", stdout)
    /\ calls' = Append(calls, "os.walk")
    /\ UNCHANGED <<libs, walked, clang_args>>

\* line 144: is the clang target built
BuildsClang(a) == a.build_llvm

\* lines 141-165: list the install's lib directory, call build_dll for clang
BuildClang ==
    /\ pc = "try"
    /\ pending = "none"
    /\ IF ~BuildsClang(args)
       THEN /\ pc' = "warp"
            /\ UNCHANGED <<pending, calls, libs, walked, clang_args, stdout, exit_status,
                           exit_by, failed>>
       ELSE LET libpath == clang_libpath(cmake.gen[1].CMAKE_INSTALL_PREFIX)
            IN \/ \E listing \in Listings :
                    /\ walked' = Some(listing)
                    /\ libs' = Some(clang_libs(listing, libpath))
                    /\ clang_args' = Some([dll_path |-> <<"warp", "bin/clang", dll_ext>>,
                                           cpp_paths |-> << <<"warp", "clang/clang.cpp">> >>,
                                           cu_path |-> None,
                                           libs |-> libs'[1],
                                           mode |-> config.mode])
                    /\ pc' = "try"
                    /\ pending' = "build_clang"
                    /\ calls' = calls \o <<"os.walk", "build_clang">>
                    /\ UNCHANGED <<stdout, exit_status, exit_by, failed>>
               \/ ListingFails(libpath)
    /\ UNCHANGED <<args, environ, sys_platform, fs, config, cmake, warp_args,
                   fs0, prev_ok>>

\* build_dll for clang returns, had its failure been swallowed
ReturnClang_goes_on ==
    /\ pending = "build_clang"
    /\ \E ok \in BOOLEAN :
         /\ pc' = "warp"
         /\ pending' = "none"
         /\ failed' = IF ok THEN failed ELSE "build_clang"
         /\ stdout' = IF ok THEN stdout
                      ELSE Append(stdout, BuildError(ErrorOf("build_clang")))
         /\ UNCHANGED <<exit_status, exit_by>>
    /\ UNCHANGED <<args, environ, sys_platform, fs, config, calls, cmake, libs,
                   walked, clang_args, warp_args, fs0, prev_ok>>

\* build_dll for clang returns or raises
ReturnClang ==
    /\ pending = "build_clang"
    /\ \/ /\ pc' = "warp"
          /\ pending' = "none"
          /\ UNCHANGED <<stdout, exit_status, exit_by, failed>>
       \/ ExceptHandler("build_clang", stdout)
    /\ UNCHANGED <<args, environ, sys_platform, fs, config, calls, cmake, libs, walked,
                   clang_args, warp_args, fs0, prev_ok>>

\* lines 168-197: assemble the warp target, call build_dll
BuildWarp ==
    /\ pc = "warp"
    /\ pending = "none"
    /\ warp_args' = Some([dll_path |-> <<"warp", "bin/warp", dll_ext>>,
                          cpp_paths |-> warp_cpp_paths(args.quick),
                          cu_path |-> warp_cu_path(config.cuda_path),
                          mode |-> config.mode,
                          quick |-> args.quick])
    /\ stdout' = IF config.cuda_path = None THEN Append(stdout, CudaWarning)
                 ELSE stdout
    /\ Call("build_warp", "warp")
    /\ UNCHANGED <<args, environ, sys_platform, fs, config, cmake, libs, walked,
                   clang_args, exit_status, exit_by, failed, fs0, prev_ok>>

\* build_dll for warp returns, had a failed build been tried again
ReturnWarp_retries ==
    /\ pending = "build_warp"
    /\ \/ /\ Finish
          /\ UNCHANGED calls
       \/ /\ Call("build_warp", "warp")
          /\ UNCHANGED <<stdout, exit_status, exit_by, failed>>
    /\ UNCHANGED <<args, environ, sys_platform, fs, config, cmake, libs, walked,
                   clang_args, warp_args, fs0, prev_ok>>

\* build_dll for warp returns or raises
ReturnWarp ==
    /\ pending = "build_warp"
    /\ \/ Finish
       \/ ExceptHandler("build_warp", stdout)
    /\ UNCHANGED <<args, environ, sys_platform, fs, config, calls, cmake, libs, walked,
                   clang_args, warp_args, fs0, prev_ok>>

\* the same command is run again on the disk the last run left
Rerun ==
    /\ pc = "exit"
    /\ prev_ok' = (args.build_llvm /\ exit_status = 0)
    /\ fs0' = fs
    /\ config' = [mode |-> args.mode, cuda_path |-> None, host_compiler |-> None]
    /\ pc' = "cuda"
    /\ pending' = "none"
    /\ calls' = <<>>
    /\ cmake' = NoCmake
    /\ libs' = None
    /\ walked' = None
    /\ clang_args' = None
    /\ warp_args' = None
    /\ stdout' = <<ArgsLine>>
    /\ exit_status' = NoStatus
    /\ exit_by' = "none"
    /\ failed' = "none"
    /\ UNCHANGED <<args, environ, sys_platform, fs>>

Next ==
    \/ SetupCuda
    \/ SetupMsvc
    \/ ReturnFindHostCompiler
    \/ Bootstrap
    \/ ReturnClone
    \/ ReturnCmakeGen
    \/ ReturnCmakeBuild
    \/ ReturnCmakeInstall
    \/ BuildClang
    \/ ReturnClang
    \/ BuildWarp
    \/ ReturnWarp
    \/ Rerun

Spec == Init /\ [][Next]_vars

\* a step of the run in progress: the script's own steps and the returns of
\* the collaborators it is blocked in
RunStep ==
    \/ SetupCuda
    \/ SetupMsvc
    \/ ReturnFindHostCompiler
    \/ Bootstrap
    \/ ReturnClone
    \/ ReturnCmakeGen
    \/ ReturnCmakeBuild
    \/ ReturnCmakeInstall
    \/ BuildClang
    \/ ReturnClang
    \/ BuildWarp
    \/ ReturnWarp

\* the interpreter keeps executing the script, and every collaborator call
\* returns; nothing obliges anyone to run the script again
FairSpec == Spec /\ WF_vars(RunStep)

-----------------------------------------------------------------------------
(* Shorthands for the properties *)

Called(step) == \E i \in 1..Len(calls) : calls[i] = step

Count(step) == Cardinality({i \in 1..Len(calls) : calls[i] = step})

\* position of the first call of step, 0 when it was not called
Pos(step) ==
    IF Called(step) THEN CHOOSE i \in 1..Len(calls) :
                             calls[i] = step /\ \A j \in 1..(i - 1) : calls[j] # step
    ELSE 0

Exited == pc = "exit"

\* the lines of the output that report a failure
ErrorLines(out) == SelectSeq(out, LAMBDA l : l # ArgsLine /\ l # CudaWarning)

Cutlass == <<"warp", "native/cutlass_gemm.cpp">>

Handed(paths, p) == \E i \in 1..Len(paths) : paths[i] = p

\* failures raised inside the try block, and those raised before it
InTry == {"os.walk", "build_clang", "build_warp"}
BeforeTry == {"clone_from", "Repo", "cmake_gen", "cmake_build", "cmake_install"}

TypeOK ==
    /\ args \in ArgsSet
    /\ environ \in EnvSet
    /\ sys_platform \in Platforms
    /\ fs \in FsStates
    /\ exit_status \in {NoStatus, 0, 1}
    /\ pc \in {"cuda", "msvc", "llvm", "cmake", "try", "warp", "exit"}

-----------------------------------------------------------------------------
(* Claims *)

\* C1 as stated: whenever the warp target has been handed to build_dll, the
\* CUTLASS source native/cutlass_gemm.cpp is in the handed source list exactly
\* when --quick is off.
C1_QuickDropsCutlass ==
    warp_args # None =>
        (Handed(warp_args[1].cpp_paths, Cutlass) <=> ~args.quick)

\* C1 amended: whenever the warp target has been handed to build_dll, the
\* CUTLASS source is in the handed source list whether or not --quick is set,
\* and the quick flag handed along equals --quick.
C1_CutlassAlwaysHanded ==
    warp_args # None =>
        /\ Handed(warp_args[1].cpp_paths, Cutlass)
        /\ warp_args[1].cpp_paths[Len(cpp_sources)] = Cutlass
        /\ warp_args[1].quick = args.quick

C1_Witness == warp_args # None /\ args.quick

\* C2 as stated: a run exits 0 exactly when no step failed and 1 otherwise,
\* and every failing run prints exactly one line that reports the failure.
C2_OneLineOnEveryFailure ==
    Exited =>
        /\ (exit_status = 0 <=> failed = "none")
        /\ (failed \in {"find_host_compiler", "clone_from", "cmake_gen", "cmake_build",
                        "cmake_install", "build_clang", "build_warp"} =>
               exit_status = 1 /\ Len(ErrorLines(stdout)) = 1)

\* C2 amended: a run exits 0 exactly when no step failed and 1 otherwise; a
\* missing host compiler and a failure inside the try block (listing the
\* libraries, either build_dll call) print exactly one line reporting it; a
\* failure of the checkout, of opening the working copy or of a cmake stage
\* prints the interpreter's traceback of the uncaught exception instead.
C2_ExitStatusAndReport ==
    Exited =>
        /\ (exit_status = 0 <=> failed = "none")
        /\ (failed # "none" => exit_status = 1)
        /\ (failed = "none" => ErrorLines(stdout) = <<>>)
        /\ (failed = "find_host_compiler" => ErrorLines(stdout) = <<MsvcError>>)
        /\ (failed \in InTry =>
               ErrorLines(stdout) = <<BuildError(ErrorOf(failed))>>)
        /\ (failed \in BeforeTry =>
               /\ ErrorLines(stdout) = Traceback(ErrorOf(failed))
               /\ Len(ErrorLines(stdout)) > 1)

C2_Witness == Exited /\ failed = "cmake_build" /\ exit_status = 1

\* C3 as stated: every failure of the checkout, of a cmake stage or of a
\* build_dll call is turned into the message and the exit status by the
\* except handler and by nothing else.
C3_EveryFailureThroughHandler ==
    (Exited /\ failed \in (InTry \cup BeforeTry) \ {"os.walk", "Repo"}) =>
        /\ exit_by = "except"
        /\ stdout[Len(stdout)] = BuildError(ErrorOf(failed))

\* C3 amended: a failure of either build_dll call is turned into the message
\* "Warp build error: <exception>" and exit status 1 by the except handler;
\* a failure of the checkout or of a cmake stage is raised before the try
\* block, reaches no handler, and ends the process with the interpreter's
\* traceback (carrying the exception) and exit status 1.
C3_HandlerCoversCompilePhase ==
    Exited =>
        /\ (failed \in {"build_clang", "build_warp"} =>
               /\ exit_by = "except"
               /\ stdout[Len(stdout)] = BuildError(ErrorOf(failed))
               /\ exit_status = 1)
        /\ (failed \in {"clone_from", "cmake_gen", "cmake_build", "cmake_install"} =>
               /\ exit_by = "uncaught"
               /\ stdout[Len(stdout)] = <<ErrorOf(failed)>>
               /\ exit_status = 1)
        /\ (exit_by = "except" => failed \in InTry)

C3_Witness == Exited /\ failed = "build_clang" /\ exit_by = "except"

Stages == {"cmake_gen", "cmake_build", "cmake_install"}
Spawned == {"clone_from", "build_clang", "build_warp"} \cup Stages

\* C4: in a run whose --mode is neither release nor debug, no checkout, no
\* cmake stage and no build_dll call is ever made.
C4_UnknownModeRejected ==
    args.mode \notin {release, debug} =>
        \A i \in 1..Len(calls) : calls[i] \notin Spawned

\* C5: the cmake stages are called in the order configure, build, install,
\* each after the one before it returned; once configure has failed neither
\* build nor install is called, once build has failed install is not called,
\* and no build_dll call follows a failed stage.
C5_StagesInOrder ==
    /\ \A st \in Stages : Count(st) <= 1
    /\ (Called("cmake_build") =>
           Called("cmake_gen") /\ Pos("cmake_gen") < Pos("cmake_build"))
    /\ (Called("cmake_install") =>
           Called("cmake_build") /\ Pos("cmake_build") < Pos("cmake_install"))
    /\ (failed = "cmake_gen" =>
           ~Called("cmake_build") /\ ~Called("cmake_install"))
    /\ (failed = "cmake_build" => ~Called("cmake_install"))
    /\ (failed \in Stages =>
           /\ ~Called("build_clang") /\ ~Called("build_warp")
           /\ calls[Len(calls)] = failed)

C5_Witness ==
    Exited /\ failed = "cmake_build" /\ Called("cmake_gen") /\ ~Called("cmake_install")

\* C6: in a run without --build_llvm there is no checkout, no cmake stage,
\* no listing of the LLVM libraries and no build_dll call for clang; the
\* only target handed to build_dll is warp.
C6_NoBootstrapWithoutFlag ==
    ~args.build_llvm =>
        /\ \A i \in 1..Len(calls) :
               calls[i] \in {"set_msvc_compiler", "find_host_compiler", "build_warp"}
        /\ clang_args = None
        /\ cmake = NoCmake
        /\ (Exited /\ failed = "none" => Called("build_warp"))

C6_Witness == ~args.build_llvm /\ fs = "absent" /\ Called("build_warp")

\* C7: a run that finds external/llvm-project on disk makes no checkout and
\* still goes through configure, build and install unless a step fails; a
\* run that does not find it makes exactly one checkout, before configure;
\* and a run after a run that built LLVM and exited 0 makes no checkout.
C7_CheckoutOnlyWhenAbsent ==
    /\ (fs0 # "absent" => ~Called("clone_from"))
    /\ (fs0 = "absent" /\ Called("cmake_gen") =>
           Count("clone_from") = 1 /\ Pos("clone_from") < Pos("cmake_gen"))
    /\ (args.build_llvm /\ fs0 # "absent" /\ Exited /\ ~Called("cmake_install") =>
           failed \in {"find_host_compiler", "Repo", "cmake_gen", "cmake_build"})
    /\ (args.build_llvm /\ fs0 = "valid" /\ pc \in {"try", "warp"} =>
           \A st \in Stages : Count(st) = 1)
    /\ (prev_ok => fs0 = "valid" /\ ~Called("clone_from"))

C7_Witness == prev_ok /\ Called("cmake_install") /\ pc = "try"

\* C8: on Windows, when --msvc_path and --sdk_path are not both given and
\* find_host_compiler has returned nothing, the process has exited with
\* status 1 and the search is the only call it made: no checkout, no cmake
\* stage, no build_dll call.
C8_NoCompilerExitsFirst ==
    (/\ os_name = "nt"
     /\ ~(Truthy(args.sdk_path) /\ Truthy(args.msvc_path))
     /\ Called("find_host_compiler")
     /\ pending # "find_host_compiler"
     /\ ~Truthy(config.host_compiler)) =>
        /\ Exited
        /\ exit_status = 1
        /\ calls = <<"find_host_compiler">>
        /\ warp_args = None /\ clang_args = None

C8_Witness ==
    Exited /\ failed = "find_host_compiler" /\ args.build_llvm /\ fs = "absent"

\* C9: once cuda_path has been set up as None, the run goes on: the warp
\* target is handed to build_dll with no CUDA source, the run exits 1 only
\* when a step failed, and exits 0 with warp built when none did.
C9_NoCudaStillBuilds ==
    (pc # "cuda" /\ config.cuda_path = None) =>
        /\ (warp_args # None => warp_args[1].cu_path = None)
        /\ (Called("build_warp") => warp_args # None)
        /\ (Exited => (exit_status = 0 <=> failed = "none"))
        /\ (Exited /\ failed = "none" => Called("build_warp"))

C9_Witness ==
    /\ sys_platform = "linux" /\ config.cuda_path = None
    /\ Exited /\ exit_status = 0 /\ warp_args # None

\* C10: on darwin, once the CUDA paths are set up, cuda_path is None for
\* every --cuda_path argument and every CUDA_HOME and CUDA_PATH.
C10_DarwinHasNoCuda ==
    (sys_platform = "darwin" /\ pc # "cuda") => config.cuda_path = None

C10_Witness ==
    /\ sys_platform = "darwin" /\ pc # "cuda"
    /\ Truthy(args.cuda_path) /\ Truthy(environ.CUDA_HOME)

\* the first of CUDA_HOME, CUDA_PATH that names a location, None without one
FirstFound(env) ==
    IF Truthy(env.CUDA_HOME) THEN env.CUDA_HOME
    ELSE IF Truthy(env.CUDA_PATH) THEN env.CUDA_PATH
    ELSE None

\* C11 as stated: off darwin, once the CUDA paths are set up, cuda_path is
\* the --cuda_path argument unchanged whenever one was passed, the empty
\* string included, whatever CUDA_HOME and CUDA_PATH are.
C11_ExplicitPathUnchanged ==
    (sys_platform # "darwin" /\ pc # "cuda" /\ args.cuda_path # None) =>
        config.cuda_path = args.cuda_path

\* C11 amended: off darwin, once the CUDA paths are set up, cuda_path is the
\* --cuda_path argument unchanged whenever a non-empty one was passed,
\* whatever CUDA_HOME and CUDA_PATH are; an empty --cuda_path counts as not
\* passed, and cuda_path then comes from CUDA_HOME or else CUDA_PATH.
C11_NonEmptyExplicitPathUnchanged ==
    (sys_platform # "darwin" /\ pc # "cuda") =>
        /\ (Truthy(args.cuda_path) => config.cuda_path = args.cuda_path)
        /\ (args.cuda_path = Some("") =>
              config.cuda_path = IF Truthy(environ.CUDA_HOME)
                                 THEN environ.CUDA_HOME
                                 ELSE environ.CUDA_PATH)

C11_Witness ==
    /\ sys_platform = "linux" /\ pc # "cuda"
    /\ args.cuda_path = Some("/opt/cuda")
    /\ Truthy(environ.CUDA_HOME) /\ Truthy(environ.CUDA_PATH)

\* C12: whenever the clang target has been handed to build_dll, its libs are
\* the file names os.walk yielded for the top level of libpath, in that
\* order, then Version.lib, then one /LIBPATH: directive naming libpath, and
\* nothing else.
C12_ClangLibs ==
    clang_args # None =>
        /\ walked # None
        /\ LET l == clang_args[1].libs
               n == Len(walked[1])
           IN /\ Len(l) = n + 2
              /\ SubSeq(l, 1, n) = walked[1]
              /\ l[n + 1] = <<"Version.lib">>
              /\ l[n + 2] = <<"/LIBPATH:",
                              LlvmPath("out/install", Capitalize(args.mode), "lib")>>
              /\ libs = Some(l)

C12_Witness ==
    clang_args # None /\ fs0 = "valid" /\ Len(walked[1]) = 2

\* C13: build_dll for warp is called only after build_dll for clang has
\* returned, when both are built; once the clang build has failed the run
\* has reported it and exited 1 and warp is never handed to build_dll; the
\* failing target is the last one handed over.
C13_ClangBeforeWarp ==
    /\ (args.build_llvm /\ Called("build_warp") =>
          Called("build_clang") /\ Pos("build_clang") < Pos("build_warp"))
    /\ (pending = "build_clang" => ~Called("build_warp") /\ warp_args = None)
    /\ (failed = "build_clang" =>
          /\ Exited /\ exit_status = 1
          /\ ~Called("build_warp") /\ warp_args = None
          /\ stdout[Len(stdout)] = BuildError(ErrorOf("build_clang")))
    /\ (failed \in {"build_clang", "build_warp"} => calls[Len(calls)] = failed)

C13_Witness ==
    Exited /\ failed = "build_clang" /\ Called("build_clang")

Warned(out) == \E i \in 1..Len(out) : out[i] = CudaWarning

\* C14: whenever the warp target has been handed to build_dll, its CUDA
\* source native/warp.cu is handed along exactly when the CUDA set-up left a
\* cuda_path other than None, and the warning has been printed (once)
\* exactly when it is not handed along; no warning is printed before.
C14_CudaSourceIffCudaPath ==
    /\ (warp_args # None =>
          /\ (warp_args[1].cu_path # None <=> config.cuda_path # None)
          /\ (Warned(stdout) <=> warp_args[1].cu_path = None)
          /\ Len(SelectSeq(stdout, LAMBDA l : l = CudaWarning)) <= 1)
    /\ (warp_args = None => ~Warned(stdout))

C14_Witness ==
    /\ warp_args # None /\ warp_args[1].cu_path # None
    /\ args.cuda_path = None /\ config.cuda_path = environ.CUDA_PATH

\* C15: off darwin and without --cuda_path, once the CUDA paths are set up,
\* cuda_path is the first of CUDA_HOME, CUDA_PATH that names a location, and
\* None when neither does.
C15_ProbeFirstFoundOrNone ==
    (sys_platform # "darwin" /\ pc # "cuda" /\ args.cuda_path = None) =>
        config.cuda_path = FirstFound(environ)

\* C16: once the listing of libpath has yielded nothing in a run that builds
\* clang, the run has exited with status 1 and neither clang nor warp has
\* been handed to build_dll.
C16_UnlistableIsFatal ==
    /\ (failed = "os.walk" =>
          /\ Exited /\ exit_status = 1
          /\ ~Called("build_clang") /\ ~Called("build_warp")
          /\ clang_args = None /\ warp_args = None)
    /\ (Called("os.walk") /\ walked = None => failed = "os.walk")

C16_Witness ==
    Exited /\ failed = "os.walk" /\ Called("cmake_install")

\* C17: on Windows find_host_compiler is called exactly when --msvc_path and
\* --sdk_path are not both given, and set_msvc_compiler exactly when both
\* are; never both in one run; off Windows neither is called.
C17_SearchIffNotBothGiven ==
    LET both == Truthy(args.sdk_path) /\ Truthy(args.msvc_path)
        past == pc # "cuda" /\ ~(pc = "msvc" /\ pending = "none")
    IN /\ (Called("find_host_compiler") => os_name = "nt" /\ ~both)
       /\ (Called("set_msvc_compiler") => os_name = "nt" /\ both)
       /\ (past /\ os_name = "nt" /\ ~both =>
             Count("find_host_compiler") = 1 /\ Count("set_msvc_compiler") = 0)
       /\ (past /\ os_name = "nt" /\ both =>
             Count("set_msvc_compiler") = 1 /\ Count("find_host_compiler") = 0)
       /\ (os_name # "nt" => config.host_compiler = None)

C17_Witness ==
    /\ os_name = "nt" /\ args.msvc_path # None /\ args.sdk_path = None
    /\ Called("find_host_compiler") /\ pc = "llvm"

\* C18: in one run the checkout, each cmake stage and each build_dll call
\* is made at most once, whether it succeeds or fails.
C18_NoRetry ==
    \A step \in Spawned : Count(step) <= 1

C18_Witness ==
    /\ Exited /\ failed = "build_warp"
    /\ Count("build_warp") = 1 /\ Count("cmake_install") = 1

\* the calls the script blocks in
Blocking(c) == SelectSeq(c, LAMBDA x : x \in Spawned \cup {"find_host_compiler"})

\* C19: when every collaborator call returns, every run reaches its exit
\* with status 0 or 1; while the script is blocked in a call that call is
\* the last one made, and no step makes more than one blocking call.
C19_RunsTerminate ==
    /\ [](~Exited => <>(Exited /\ exit_status \in {0, 1} /\ pending = "none"))
    /\ [](pending # "none" =>
            /\ Blocking(calls) # <<>>
            /\ Blocking(calls)[Len(Blocking(calls))] = pending)
    /\ [][Len(Blocking(calls')) <= Len(Blocking(calls)) + 1]_vars

C19_Witness ==
    /\ Exited /\ exit_status = 0 /\ args.build_llvm
    /\ Len(Blocking(calls)) >= 5

\* C20: build and install are run on the build directory configure
\* generated into; that directory, the install prefix and CMAKE_BUILD_TYPE
\* all carry the capitalized --mode; and the /LIBPATH: handed to the clang
\* target is the lib directory under the install prefix given to configure.
C20_OneBuildType ==
    /\ (cmake.gen # None =>
          LET g == cmake.gen[1]
              bt == Capitalize(args.mode)
          IN /\ g.CMAKE_BUILD_TYPE = bt
             /\ g.B = LlvmPath("out/build", bt, "")
             /\ g.CMAKE_INSTALL_PREFIX = LlvmPath("out/install", bt, "")
             /\ (cmake.build # None => cmake.build[1] = g.B)
             /\ (cmake.install # None => cmake.install[1] = g.B))
    /\ (Called("cmake_build") => cmake.build # None)
    /\ (Called("cmake_install") => cmake.install # None)
    /\ (clang_args # None =>
          LET l == clang_args[1].libs
              g == cmake.gen[1]
          IN l[Len(l)] = <<"/LIBPATH:",
                           [dir |-> g.CMAKE_INSTALL_PREFIX.dir,
                            build_type |-> g.CMAKE_BUILD_TYPE,
                            sub |-> "lib"]>>)

C20_Witness ==
    clang_args # None /\ args.mode = debug /\ Called("cmake_install")
====
